---- MODULE Spec2Model ----
(***************************************************************************)
(* Model of multi-agent/app.py: a Streamlit script whose main() is re-run  *)
(* from the top on every user interaction.  One run manages the two stored *)
(* documents, chunks them, builds the BM25 retrievers, constructs the LLM  *)
(* client, reads the query and routes it to the salary / insurance /       *)
(* coordinator agents.                                                     *)
(*                                                                         *)
(* Strings whose characters matter (the query) are sequences of one-       *)
(* character strings.  A stored or uploaded document is abstracted to the  *)
(* number of chunks its text splits into (document 0 has no text); an      *)
(* optional value is <<>> (absent) or <<v>> (present).                     *)
(***************************************************************************)
EXTENDS Integers, Sequences, FiniteSets, TLC

\* ---------------------------------------------------------------- bounds
MaxRuns == 2
MaxDoc == 1

\* ------------------------------------------------------------- constants
None == "None"
Domains == {"salary", "insurance"}
Docs == 0..MaxDoc
OptDoc == {<<>>} \cup {<<d>> : d \in Docs}
ApiKeys == {None, "", "gsk_key"}

kwSalary == <<"s", "a", "l", "a", "r", "y">>
kwInsurance == <<"i", "n", "s", "u", "r", "a", "n", "c", "e">>

NoSalaryData == "No salary data available."
NoInsuranceData == "No insurance data available."
SalaryAnswer == "Salary Agent: content"
InsuranceAnswer == "Insurance Agent: content"
CoordinatorAnswer == "Coordinator Agent: content"

\* --------------------------------------------------------- query strings
\* Pieces from which the query strings of the model are assembled: each
\* keyword in lower and in mixed case, a keyword cut in two, and a blank.
Fragments ==
  { << >>,
    kwSalary,
    <<"S", "a", "l", "a", "R", "y">>,
    <<"I", "N", "S", "U", "R", "a", "n", "c", "e">>,
    <<"s", "a", "l">>,
    <<"a", "r", "y">>,
    <<" ">> }

\* the query strings the text input can hold: any two pieces in a row
Queries == { a \o b : a \in Fragments, b \in Fragments }

\* str.lower() on one character, for the characters of the model's alphabet
LowerChar(c) ==
  CASE c = "S" -> "s" [] c = "A" -> "a" [] c = "L" -> "l" [] c = "R" -> "r"
    [] c = "Y" -> "y" [] c = "I" -> "i" [] c = "N" -> "n" [] c = "U" -> "u"
    [] c = "C" -> "c" [] c = "E" -> "e" [] OTHER -> c

\* query.lower()
Lower_Identity(s) == s
Lower(s) == [i \in 1..Len(s) |-> LowerChar(s[i])]

\* Python's `sub in s` for strings
Contains(sub, s) ==
  \E i \in 0..(Len(s) - Len(sub)) : SubSeq(s, i + 1, i + Len(sub)) = sub

\* the if / elif / elif / else chain of main(), as the branch it selects
Classify(q) ==
  LET query_lower == Lower(q)
      hasS == Contains(kwSalary, query_lower)
      hasI == Contains(kwInsurance, query_lower)
  IN  IF hasS /\ ~hasI THEN "salary_only"
      ELSE IF hasI /\ ~hasS THEN "insurance_only"
      ELSE IF hasS /\ hasI THEN "both"
      ELSE "neither"

\* ------------------------------------------------------------- documents
\* One document section of manage_documents(): the delete button is only
\* rendered (and can only act) when the file exists, then the uploader
\* writes the uploaded file if one is present.
manage_one_UploadFirst(f, del, up) ==
  LET written == IF up # <<>> THEN up ELSE f
  IN  IF f # <<>> /\ del THEN <<>> ELSE written
manage_one(f, del, up) ==
  LET afterDelete == IF f # <<>> /\ del THEN <<>> ELSE f
  IN  IF up # <<>> THEN up ELSE afterDelete

\* load_and_chunk(file_path): [] for a missing path, else the splitter's
\* chunks of the stored document
load_and_chunk(file_path, f) ==
  IF file_path = None \/ f = <<>> THEN <<>>
  ELSE [i \in 1..f[1] |-> <<f[1], i>>]

\* BM25Retriever.from_documents(chunks) if chunks else None
build_one(chunks) == IF chunks # <<>> THEN <<chunks>> ELSE <<>>

\* ----------------------------------------------------------------- state
VARIABLES
  api_key,        \* os.getenv("GROQ_API_KEY")
  file,           \* data/<domain>.docx on disk, per domain
  run,            \* number of the current script run
  pc,             \* position of the current run in main()
  existed,        \* the file existed when this run's manage_documents began
  pressed,        \* delete button pressed in this run, per domain
  uploaded,       \* file held by the uploader in this run, per domain
  docChanged,     \* manage_documents changed a stored document in this run
  salary_file, insurance_file,
  docs, stores,
  builds,         \* BM25Retriever.from_documents calls so far, per domain
  llm,
  query, branch,
  salary_ans, insurance_ans, final_ans,
  invoked,        \* agent functions called in this run, in order
  calls,          \* llm.invoke calls of this run, in order
  coordArgs,      \* (salary_ans, insurance_ans) passed to coordinator_agent
  shown,          \* what this run rendered in the main pane
  queries         \* non-empty queries routed so far in the session

vars == << api_key, file, run, pc, existed, pressed, uploaded, docChanged,
           salary_file, insurance_file, docs, stores, builds, llm,
           query, branch, salary_ans, insurance_ans, final_ans,
           invoked, calls, coordArgs, shown, queries >>

sessionVars == << api_key, file, builds, queries >>
docVars == << existed, pressed, uploaded, docChanged, salary_file, insurance_file,
              docs, stores >>
queryVars == << query, branch, salary_ans, insurance_ans, final_ans,
                invoked, calls, coordArgs, shown >>

Init ==
  /\ api_key \in ApiKeys
  /\ file \in [Domains -> OptDoc]
  /\ run = 1
  /\ pc = "manage"
  /\ existed = [d \in Domains |-> FALSE]
  /\ pressed = [d \in Domains |-> FALSE]
  /\ uploaded = [d \in Domains |-> <<>>]
  /\ docChanged = FALSE
  /\ salary_file = None
  /\ insurance_file = None
  /\ docs = [d \in Domains |-> <<>>]
  /\ stores = [d \in Domains |-> <<>>]
  /\ builds = [d \in Domains |-> 0]
  /\ llm = None
  /\ query = <<>>
  /\ branch = None
  /\ salary_ans = None
  /\ insurance_ans = None
  /\ final_ans = None
  /\ invoked = <<>>
  /\ calls = <<>>
  /\ coordArgs = <<>>
  /\ shown = <<>>
  /\ queries = 0

\* --------------------------------------------------------------- actions
\* manage_documents(): both document sections, then the two returned paths
ManageDocuments ==
  /\ pc = "manage"
  /\ \E delS \in BOOLEAN, delI \in BOOLEAN, upS \in OptDoc, upI \in OptDoc :
       LET newS == manage_one(file["salary"], delS, upS)
           newI == manage_one(file["insurance"], delI, upI)
           newFile == [d \in Domains |-> IF d = "salary" THEN newS ELSE newI]
       IN  /\ file' = newFile
           /\ existed' = [d \in Domains |-> file[d] # <<>>]
           /\ pressed' = [d \in Domains |->
                            file[d] # <<>> /\ (IF d = "salary" THEN delS ELSE delI)]
           /\ uploaded' = [d \in Domains |-> IF d = "salary" THEN upS ELSE upI]
           /\ docChanged' = (newFile # file)
           /\ salary_file' = IF newS # <<>> THEN "data/salary.docx" ELSE None
           /\ insurance_file' = IF newI # <<>> THEN "data/insurance.docx" ELSE None
  /\ pc' = "load"
  /\ UNCHANGED << api_key, run, docs, stores, builds, llm, queries >>
  /\ UNCHANGED queryVars

\* load_and_chunk for both domains, then build_retrievers(docs)
LoadAndBuild_Cached ==
  /\ pc = "load"
  /\ LET chunks == [d \in Domains |->
                      load_and_chunk(IF d = "salary" THEN salary_file
                                     ELSE insurance_file, file[d])]
     IN  /\ docs' = chunks
         /\ stores' = [d \in Domains |-> build_one(chunks[d])]
         /\ builds' = [d \in Domains |->
                         IF chunks[d] # <<>> /\ (docChanged \/ run = 1)
                         THEN builds[d] + 1 ELSE builds[d]]
  /\ pc' = "llm"
  /\ UNCHANGED << api_key, file, run, existed, pressed, uploaded, docChanged,
                  salary_file, insurance_file, llm, queries >>
  /\ UNCHANGED queryVars
LoadAndBuild ==
  /\ pc = "load"
  /\ LET chunks == [d \in Domains |->
                      load_and_chunk(IF d = "salary" THEN salary_file
                                     ELSE insurance_file, file[d])]
     IN  /\ docs' = chunks
         /\ stores' = [d \in Domains |-> build_one(chunks[d])]
         /\ builds' = [d \in Domains |->
                         IF chunks[d] # <<>> THEN builds[d] + 1 ELSE builds[d]]
  /\ pc' = "llm"
  /\ UNCHANGED << api_key, file, run, existed, pressed, uploaded, docChanged,
                  salary_file, insurance_file, llm, queries >>
  /\ UNCHANGED queryVars

\* `if not api_key` in get_llm()
CredentialMissing_NoneOnly(k) == k = None
CredentialMissing(k) == k = None \/ k = ""

\* get_llm(): st.error + st.stop() without a credential, else the client
GetLLM ==
  /\ pc = "llm"
  /\ IF CredentialMissing(api_key)
     THEN /\ pc' = "stopped"
          /\ llm' = llm
          /\ shown' = Append(shown, "missing_key_error")
     ELSE /\ pc' = "query"
          /\ llm' = "ChatGroq"
          /\ shown' = shown
  /\ UNCHANGED sessionVars
  /\ UNCHANGED docVars
  /\ UNCHANGED << run, query, branch, salary_ans, insurance_ans, final_ans,
                  invoked, calls, coordArgs >>

\* st.text_input(...): the query this run sees
TextInput ==
  /\ pc = "query"
  /\ \E q \in Queries : query' = q
  /\ pc' = "route"
  /\ UNCHANGED sessionVars
  /\ UNCHANGED docVars
  /\ UNCHANGED << run, llm, branch, salary_ans, insurance_ans, final_ans,
                  invoked, calls, coordArgs, shown >>

\* `if query:` and the if / elif / elif / else dispatch of main()
Route ==
  /\ pc = "route"
  /\ IF Len(query) = 0
     THEN /\ pc' = "done"
          /\ UNCHANGED << branch, shown, queries >>
     ELSE LET b == Classify(query)
          IN  /\ branch' = b
              /\ queries' = queries + 1
              /\ pc' = CASE b = "salary_only" -> "salary"
                         [] b = "insurance_only" -> "insurance"
                         [] b = "both" -> "salary"
                         [] OTHER -> "done"
              /\ shown' = IF b = "neither" THEN Append(shown, "clarify_warning")
                          ELSE shown
  /\ UNCHANGED << api_key, file, builds >>
  /\ UNCHANGED docVars
  /\ UNCHANGED << run, llm, query, salary_ans, insurance_ans, final_ans,
                  invoked, calls, coordArgs >>

\* salary_agent(query, retriever, llm); ok is the outcome of llm.invoke
salary_agent_NoGuard(retriever, ok) ==
  IF ok THEN [ans |-> SalaryAnswer, called |-> TRUE, raised |-> FALSE]
  ELSE [ans |-> None, called |-> TRUE, raised |-> TRUE]
salary_agent_Fallback(retriever, ok) ==
  IF retriever = <<>>
  THEN [ans |-> NoSalaryData, called |-> FALSE, raised |-> FALSE]
  ELSE IF ok THEN [ans |-> SalaryAnswer, called |-> TRUE, raised |-> FALSE]
  ELSE [ans |-> NoSalaryData, called |-> TRUE, raised |-> FALSE]
salary_agent(retriever, ok) ==
  IF retriever = <<>>
  THEN [ans |-> NoSalaryData, called |-> FALSE, raised |-> FALSE]
  ELSE IF ok THEN [ans |-> SalaryAnswer, called |-> TRUE, raised |-> FALSE]
  ELSE [ans |-> None, called |-> TRUE, raised |-> TRUE]

\* insurance_agent(query, retriever, llm)
insurance_agent_NoGuard(retriever, ok) ==
  IF ok THEN [ans |-> InsuranceAnswer, called |-> TRUE, raised |-> FALSE]
  ELSE [ans |-> None, called |-> TRUE, raised |-> TRUE]
insurance_agent_NoneSentinel(retriever, ok) ==
  IF retriever = <<>>
  THEN [ans |-> None, called |-> FALSE, raised |-> FALSE]
  ELSE IF ok THEN [ans |-> InsuranceAnswer, called |-> TRUE, raised |-> FALSE]
  ELSE [ans |-> None, called |-> TRUE, raised |-> TRUE]
insurance_agent(retriever, ok) ==
  IF retriever = <<>>
  THEN [ans |-> NoInsuranceData, called |-> FALSE, raised |-> FALSE]
  ELSE IF ok THEN [ans |-> InsuranceAnswer, called |-> TRUE, raised |-> FALSE]
  ELSE [ans |-> None, called |-> TRUE, raised |-> TRUE]

\* coordinator_agent(query, salary_ans, insurance_ans, llm)
coordinator_agent(ok) ==
  IF ok THEN [ans |-> CoordinatorAnswer, called |-> TRUE, raised |-> FALSE]
  ELSE [ans |-> None, called |-> TRUE, raised |-> TRUE]

\* where main() continues after salary_agent / insurance_agent returned
AfterSalary_SkipInsurance(b) == IF b = "both" THEN "coordinator" ELSE "done"
AfterSalary(b) == IF b = "both" THEN "insurance" ELSE "done"
AfterInsurance(b) == IF b = "both" THEN "coordinator" ELSE "done"

LogCall(r, agent, ok) ==
  IF r.called THEN Append(calls, [agent |-> agent, ok |-> ok]) ELSE calls

\* the salary_agent call of the salary-only and the both branch; in the
\* salary-only branch the answer is rendered right after the call
SalaryStep ==
  /\ pc = "salary"
  /\ \E ok \in BOOLEAN :
       LET r == salary_agent(stores["salary"], ok)
       IN  /\ invoked' = Append(invoked, "salary")
           /\ calls' = LogCall(r, "salary", ok)
           /\ IF r.raised
              THEN /\ pc' = "aborted"
                   /\ UNCHANGED << salary_ans, shown >>
              ELSE /\ salary_ans' = r.ans
                   /\ pc' = AfterSalary(branch)
                   /\ shown' = IF branch = "salary_only"
                               THEN Append(shown, "salary_answer") ELSE shown
  /\ UNCHANGED sessionVars
  /\ UNCHANGED docVars
  /\ UNCHANGED << run, llm, query, branch, insurance_ans, final_ans, coordArgs >>

\* the insurance_agent call of the insurance-only and the both branch
InsuranceStep ==
  /\ pc = "insurance"
  /\ \E ok \in BOOLEAN :
       LET r == insurance_agent(stores["insurance"], ok)
       IN  /\ invoked' = Append(invoked, "insurance")
           /\ calls' = LogCall(r, "insurance", ok)
           /\ IF r.raised
              THEN /\ pc' = "aborted"
                   /\ UNCHANGED << insurance_ans, shown >>
              ELSE /\ insurance_ans' = r.ans
                   /\ pc' = AfterInsurance(branch)
                   /\ shown' = IF branch = "insurance_only"
                               THEN Append(shown, "insurance_answer") ELSE shown
  /\ UNCHANGED sessionVars
  /\ UNCHANGED docVars
  /\ UNCHANGED << run, llm, query, branch, salary_ans, final_ans, coordArgs >>

\* the coordinator_agent call of the both branch and the three renderings
\* that follow it
CoordinatorStep ==
  /\ pc = "coordinator"
  /\ \E ok \in BOOLEAN :
       LET r == coordinator_agent(ok)
       IN  /\ invoked' = Append(invoked, "coordinator")
           /\ coordArgs' = << salary_ans, insurance_ans >>
           /\ calls' = LogCall(r, "coordinator", ok)
           /\ IF r.raised
              THEN /\ pc' = "aborted"
                   /\ UNCHANGED << final_ans, shown >>
              ELSE /\ final_ans' = r.ans
                   /\ pc' = "done"
                   /\ shown' = shown \o << "salary_answer", "insurance_answer",
                                           "final_answer" >>
  /\ UNCHANGED sessionVars
  /\ UNCHANGED docVars
  /\ UNCHANGED << run, llm, query, branch, salary_ans, insurance_ans >>

\* the next user interaction: Streamlit runs the script again from the top;
\* only the files, the environment and the session counters survive
Rerun ==
  /\ pc \in {"done", "aborted", "stopped"}
  /\ run < MaxRuns
  /\ run' = run + 1
  /\ pc' = "manage"
  /\ existed' = [d \in Domains |-> FALSE]
  /\ pressed' = [d \in Domains |-> FALSE]
  /\ uploaded' = [d \in Domains |-> <<>>]
  /\ docChanged' = FALSE
  /\ salary_file' = None
  /\ insurance_file' = None
  /\ docs' = [d \in Domains |-> <<>>]
  /\ stores' = [d \in Domains |-> <<>>]
  /\ llm' = None
  /\ query' = <<>>
  /\ branch' = None
  /\ salary_ans' = None
  /\ insurance_ans' = None
  /\ final_ans' = None
  /\ invoked' = <<>>
  /\ calls' = <<>>
  /\ coordArgs' = <<>>
  /\ shown' = <<>>
  /\ UNCHANGED sessionVars

Next ==
  \/ ManageDocuments
  \/ LoadAndBuild
  \/ GetLLM
  \/ TextInput
  \/ Route
  \/ SalaryStep
  \/ InsuranceStep
  \/ CoordinatorStep
  \/ Rerun

Spec == Init /\ [][Next]_vars

\* ------------------------------------------------------------ type check
TypeOK ==
  /\ api_key \in ApiKeys
  /\ file \in [Domains -> OptDoc]
  /\ run \in 1..MaxRuns
  /\ pc \in {"manage", "load", "llm", "query", "route", "salary", "insurance",
             "coordinator", "done", "aborted", "stopped"}
  /\ builds \in [Domains -> 0..MaxRuns]
  /\ queries \in 0..MaxRuns
  /\ query \in Queries
  /\ branch \in {None, "salary_only", "insurance_only", "both", "neither"}

\* --------------------------------------------------------------- helpers
InvokedSet == { invoked[i] : i \in 1..Len(invoked) }
CallsBy(a) == Cardinality({ i \in 1..Len(calls) : calls[i].agent = a })
AnswerOf(a) == CASE a = "salary" -> salary_ans
                 [] a = "insurance" -> insurance_ans
                 [] OTHER -> final_ans
SentinelOf(d) == IF d = "salary" THEN NoSalaryData ELSE NoInsuranceData
HasChunks(f) == IF f = <<>> THEN FALSE ELSE f[1] > 0

\* kw occurs in q when letter case is ignored
HasWord(kw, q) ==
  \E i \in 0..(Len(q) - Len(kw)) :
    \A j \in 1..Len(kw) : LowerChar(q[i + j]) = kw[j]

\* the agents the routing table prescribes for q, in call order
Expected(q) ==
  LET s == HasWord(kwSalary, q)
      n == HasWord(kwInsurance, q)
  IN  IF s /\ ~n THEN << "salary" >>
      ELSE IF n /\ ~s THEN << "insurance" >>
      ELSE IF s /\ n THEN << "salary", "insurance", "coordinator" >>
      ELSE << >>

Clarified == \E i \in 1..Len(shown) : shown[i] = "clarify_warning"

\* ---------------------------------------------------------------- claims
\* C1 (as stated): for every query string, when the run has finished, the
\* agents invoked are exactly those of the routing table for the
\* case-insensitive containment of "salary" and "insurance", and the
\* clarification sentinel is shown exactly when neither word occurs.
C1_AsStated ==
  pc = "done" =>
    /\ invoked = Expected(query)
    /\ Clarified <=> Expected(query) = << >>

\* C1 (amended): the routing table holds for every non-empty query whose
\* run finishes; a run cut short by a failed model call has invoked a
\* non-empty prefix of the table's agents and shows no sentinel; an empty
\* query invokes nothing and shows nothing.
C1_Routing ==
  /\ (pc = "done" /\ query # << >>) =>
        /\ invoked = Expected(query)
        /\ Clarified <=> Expected(query) = << >>
  /\ (pc = "done" /\ query = << >>) => (invoked = << >> /\ shown = << >>)
  /\ pc = "aborted" =>
        /\ invoked # << >>
        /\ Len(invoked) <= Len(Expected(query))
        /\ invoked = SubSeq(Expected(query), 1, Len(invoked))
        /\ ~Clarified

C1_Witness ==
  /\ pc = "done"
  /\ query # Lower(query)
  /\ invoked = << "salary", "insurance", "coordinator" >>

\* C2: once routing has completed, the final answer is non-null exactly
\* when both the salary and the insurance answer are non-null, a "no data
\* available" sentinel counting as an answer.
C2_FinalIffBoth ==
  pc = "done" =>
    (final_ans # None <=> (salary_ans # None /\ insurance_ans # None))

C2_Witness ==
  /\ pc = "done"
  /\ final_ans # None
  /\ insurance_ans = NoInsuranceData

\* C3: a domain whose document is missing has no chunks and no retriever,
\* and its agent, once invoked, has returned the "no data available"
\* sentinel without any llm.invoke call.
C3_AbsentDocNoCall ==
  \A d \in Domains :
    file[d] = << >> =>
      /\ docs[d] = << >>
      /\ stores[d] = << >>
      /\ d \in InvokedSet => (AnswerOf(d) = SentinelOf(d) /\ CallsBy(d) = 0)

C3_Witness ==
  /\ file["salary"] = << >>
  /\ file["insurance"] # << >>
  /\ "salary" \in InvokedSet
  /\ salary_ans = NoSalaryData
  /\ calls = << >>

\* C4: the coordinator is invoked only in the both branch, at most once,
\* and only after salary_agent and insurance_agent have both returned.
C4_CoordinatorJoin ==
  /\ (pc = "coordinator" \/ "coordinator" \in InvokedSet) =>
        /\ branch = "both"
        /\ Len(invoked) >= 2
        /\ invoked[1] = "salary"
        /\ invoked[2] = "insurance"
        /\ salary_ans # None
        /\ insurance_ans # None
  /\ "coordinator" \in InvokedSet =>
        /\ invoked = << "salary", "insurance", "coordinator" >>
        /\ coordArgs = << salary_ans, insurance_ans >>
  /\ branch # "both" => (pc # "coordinator" /\ "coordinator" \notin InvokedSet)

C4_Witness ==
  /\ "coordinator" \in InvokedSet
  /\ pc = "done"

\* C5: a failed llm.invoke is not caught: it is the last model call and
\* the last agent call of the run, the run is aborted, the failing agent
\* produced no answer, nothing was rendered, and no agent calls the model
\* twice.
C5_FailureAborts ==
  /\ \A i \in 1..Len(calls) :
       ~calls[i].ok =>
         /\ pc = "aborted"
         /\ i = Len(calls)
         /\ invoked[Len(invoked)] = calls[i].agent
         /\ AnswerOf(calls[i].agent) = None
         /\ final_ans = None
         /\ shown = << >>
  /\ \A i, j \in 1..Len(calls) : calls[i].agent = calls[j].agent => i = j
  /\ pc = "aborted" => (calls # << >> /\ ~calls[Len(calls)].ok)

C5_Witness ==
  /\ pc = "aborted"
  /\ Len(calls) = 2
  /\ calls[2].agent = "insurance"
  /\ salary_ans = SalaryAnswer

\* C6: without a credential (unset or empty) no run gets past get_llm:
\* no query is read, no branch chosen, no agent and no model call made.
C6_NoCredentialHalts ==
  api_key \in {None, ""} =>
    /\ pc \in {"manage", "load", "llm", "stopped"}
    /\ llm = None
    /\ query = << >>
    /\ branch = None
    /\ invoked = << >>
    /\ calls = << >>
    /\ queries = 0

C6_Witness ==
  /\ pc = "stopped"
  /\ api_key = ""
  /\ stores["salary"] # << >>
  /\ stores["insurance"] = << >>

C9_BothBranchCalls ==
  (pc = "done" /\ branch = "both") =>
    /\ \A d \in Domains : CallsBy(d) = (IF stores[d] # << >> THEN 1 ELSE 0)
    /\ CallsBy("coordinator") = 1
    /\ Len(calls) = 1 + Cardinality({ d \in Domains : stores[d] # << >> })
    /\ coordArgs = << salary_ans, insurance_ans >>
    /\ \A d \in Domains : stores[d] = << >> => AnswerOf(d) = SentinelOf(d)

C9_Witness ==
  /\ pc = "done"
  /\ branch = "both"
  /\ stores["salary"] = << >>
  /\ stores["insurance"] # << >>
  /\ coordArgs = << NoSalaryData, InsuranceAnswer >>

\* C10 (as stated): after manage_documents a domain's document exists
\* exactly when an upload is present or it existed and delete was not
\* pressed; delete pressed with an upload present leaves the uploaded
\* document stored and that domain's retriever is built.
C10_AsStated ==
  \A d \in Domains :
    /\ pc # "manage" =>
         (file[d] # << >> <=> (uploaded[d] # << >> \/ (existed[d] /\ ~pressed[d])))
    /\ (pc \notin {"manage", "load"} /\ pressed[d] /\ uploaded[d] # << >>) =>
         (file[d] = uploaded[d] /\ stores[d] # << >>)

\* C10 (amended): as stated, except that the retriever is built exactly
\* when the re-written document yields at least one chunk.
C10_DeleteBeforeUpload ==
  \A d \in Domains :
    /\ pc # "manage" =>
         (file[d] # << >> <=> (uploaded[d] # << >> \/ (existed[d] /\ ~pressed[d])))
    /\ (pc \notin {"manage", "load"} /\ pressed[d] /\ uploaded[d] # << >>) =>
         (file[d] = uploaded[d] /\ (stores[d] # << >> <=> HasChunks(uploaded[d])))

C10_Witness ==
  /\ pc = "route"
  /\ pressed["insurance"]
  /\ HasChunks(uploaded["insurance"])
  /\ stores["insurance"] # << >>
  /\ branch = None
====
